---- MODULE Spec2Model ----
(***************************************************************************)
(* A model of vit.py: the shifted-patch tokenizer, the locality attention, *)
(* the encoder block of vit_classifier and the warmup-cosine schedule.     *)
(* Each unit is exercised on its own (variable unit), the way a unit test  *)
(* of the layer or of the schedule would drive it.                         *)
(*                                                                         *)
(* Floating-point values are fixed-point integers: a rate r is r*RateUnit, *)
(* a cosine c is c*CosScale, an activation a is a*ActScale.  A float that  *)
(* is NaN is the record NaN.  A Python object is the record of the         *)
(* attributes its __init__ assigned; reading an attribute that was never   *)
(* assigned raises AttributeError.                                         *)
(***************************************************************************)
EXTENDS Integers, Sequences, FiniteSets, TLC

VARIABLES
    unit,             \* which unit this run drives
    sched,            \* the warmupcosine object, or Null before construction
    sched_call,       \* the last warmupcosine.__call__: step, outcome, locals
    patcher,          \* the shiftedpatch layer, or Null before construction
    patch_call,       \* the last shiftedpatch.call: outcome and locals
    hyper,            \* the module's hyper parameters (lines 39-41)
    diag_attn_mask,   \* the module's attention mask (lines 181-182)
    attn,             \* the multiheadattention layer, or Null
    attn_call,        \* the last multiheadattention._compute_attention
    vit               \* vit_classifier: its argument, position and locals

vars == <<unit, sched, sched_call, patcher, patch_call, hyper, diag_attn_mask,
          attn, attn_call, vit>>

Null == [none |-> TRUE]

(* ------------------------------ bounds --------------------------------- *)
MaxSteps == 3        \* total_steps and warmup_steps range over 0..MaxSteps
MaxRate == 2         \* rates range over 0..MaxRate rate units
MaxImage == 4        \* image_size ranges over 1..MaxImage
MaxGrid == 2         \* the module's image is 2..MaxGrid patches wide

\* scaled-down hyper parameters of lines 49-50
transformer_layers == 2
projection_dim == 2

(* ------------------------- fixed-point floats -------------------------- *)
RateUnit == 1000
CosScale == 10000
PiFP == 31416        \* np.pi * CosScale

NaN == [kind |-> "nan", val |-> 0]
Num(v) == [kind |-> "num", val |-> v]
Unset == [kind |-> "unset", val |-> 0]
Abs(x) == IF x < 0 THEN -x ELSE x

\* cos(x) for x in [0, pi/2], x = xfp / CosScale, by its Taylor polynomial
CosSeries(xfp) ==
    LET y  == (xfp * xfp) \div CosScale
        h4 == CosScale - (y \div 56)
        h3 == CosScale - ((y * h4) \div (30 * CosScale))
        h2 == CosScale - ((y * h3) \div (12 * CosScale))
    IN  CosScale - ((y * h2) \div (2 * CosScale))

\* tf.cos(pi * num / den) * CosScale for den > 0
CosPi(num, den) ==
    LET n0 == Abs(num) % (2 * den)
        n1 == IF n0 > den THEN 2 * den - n0 ELSE n0
    IN  IF 2 * n1 > den
        THEN -CosSeries((PiFP * (den - n1)) \div den)
        ELSE CosSeries((PiFP * n1) \div den)

(* ------------------------ warmup-cosine schedule ----------------------- *)
HasAttr(obj, name) == name \in DOMAIN obj

\* line 226: tf.cos(pi * (step - warmup_steps) / float(total_steps - warmup_steps));
\* a zero denominator makes the float32 quotient nan or inf, whose cosine is nan
cos_annealed_lr(self, step) ==
    IF self.total_steps - self.warmup_steps = 0
    THEN NaN
    ELSE Num(CosPi(step - self.warmup_steps, self.total_steps - self.warmup_steps))

\* line 227: 0.5 * learning_rate_base * (1 + cos_annealed_lr)
cosine_rate(self, step) ==
    LET c == cos_annealed_lr(self, step)
    IN  IF c.kind = "nan" THEN NaN
        ELSE Num((self.learning_rate_base * (CosScale + c.val)) \div (2 * CosScale))

\* lines 232-233: slope * step + warmup_learning_rate (warmup_steps > 0)
warmup_rate(self, step) ==
    Num(((self.learning_rate_base - self.warmup_learning_rate) * step)
            \div self.warmup_steps + self.warmup_learning_rate)

\* line 234: tf.where(step < warmup_steps, warmup_rate, learning_rate)
warmup_where(self, step) ==
    IF step < self.warmup_steps THEN warmup_rate(self, step) ELSE cosine_rate(self, step)

\* the first validation with its comparison off by one
total_steps_check_off_by_one(self) == self.total_steps + 1 < self.warmup_steps

\* lines 223-224: the first validation of __call__
total_steps_check(self) == self.total_steps < self.warmup_steps

\* lines 229-231: the second validation of __call__, inside the warmup branch
warmup_rate_check(self) ==
    self.warmup_steps > 0 /\ self.learning_rate_base < self.warmup_learning_rate

\* line 235: tf.where(step > self.total_Steps, 0.0, learning_rate)
\* reads the attribute total_Steps, which __init__ never assigns
clamp(self, step, lr) ==
    IF ~HasAttr(self, "total_Steps")
    THEN [status |-> "AttributeError", step |-> step, learning_rate |-> lr,
          value |-> Unset]
    ELSE [status |-> "returned", step |-> step, learning_rate |-> lr,
          value |-> IF step > self["total_Steps"] THEN Num(0) ELSE lr]

\* lines 222-235: warmupcosine.__call__, as the record of how the call ended
\* and of the local learning_rate when it ended
warmupcosine_call(self, step) ==
    IF total_steps_check(self)
    THEN [status |-> "ValueError", step |-> step, learning_rate |-> Unset,
          value |-> Unset]
    ELSE IF warmup_rate_check(self)
    THEN [status |-> "ValueError", step |-> step,
          learning_rate |-> cosine_rate(self, step), value |-> Unset]
    ELSE clamp(self, step,
               IF self.warmup_steps > 0 THEN warmup_where(self, step)
               ELSE cosine_rate(self, step))

\* lines 214-220: warmupcosine.__init__ stores its arguments and validates nothing
warmupcosine_init(learning_rate_base, total_steps, warmup_learning_rate, warmup_steps) ==
    [learning_rate_base |-> learning_rate_base,
     total_steps |-> total_steps,
     warmup_learning_rate |-> warmup_learning_rate,
     warmup_steps |-> warmup_steps,
     pi |-> PiFP]


(* ------------------------- tensors and layers -------------------------- *)
RECURSIVE SumRange(_, _, _)
SumRange(s, lo, hi) ==
    IF lo > hi THEN 0
    ELSE IF lo = hi THEN s[lo]
    ELSE LET mid == (lo + hi) \div 2
         IN  SumRange(s, lo, mid) + SumRange(s, mid + 1, hi)
\* tf.reduce_sum of a vector
SumSeq(s) == SumRange(s, 1, Len(s))

\* an image tensor of shape (h, w, c): px maps <<row, column, channel>>, 0-based
Pixels(h, w, c) == (0..(h - 1)) \X (0..(w - 1)) \X (0..(c - 1))
Image(h, w, c, px) == [h |-> h, w |-> w, c |-> c, px |-> px]

\* tf.image.crop_to_bounding_box
crop_to_bounding_box(images, offset_height, offset_width, target_height, target_width) ==
    Image(target_height, target_width, images.c,
          [p \in Pixels(target_height, target_width, images.c) |->
              images.px[<<p[1] + offset_height, p[2] + offset_width, p[3]>>]])

\* tf.image.pad_to_bounding_box: zeros around the image placed at the offsets
pad_to_bounding_box(images, offset_height, offset_width, target_height, target_width) ==
    Image(target_height, target_width, images.c,
          [p \in Pixels(target_height, target_width, images.c) |->
              IF /\ p[1] - offset_height \in 0..(images.h - 1)
                 /\ p[2] - offset_width \in 0..(images.w - 1)
              THEN images.px[<<p[1] - offset_height, p[2] - offset_width, p[3]>>]
              ELSE 0])

\* tf.concat(..., axis = -1): the channels of the images, one image after another
concat(imgs) ==
    LET first == imgs[1]
        c == first.c
    IN  Image(first.h, first.w, c * Len(imgs),
              [p \in Pixels(first.h, first.w, c * Len(imgs)) |->
                  imgs[(p[3] \div c) + 1].px[<<p[1], p[2], p[3] % c>>]])

\* tf.image.extract_patches with sizes = strides = patch_size, padding VALID:
\* a grid of patches, each the sequence of its pixels in (row, column, channel) order
extract_patches(images, size) ==
    LET rows == IF images.h < size THEN 0 ELSE (images.h - size) \div size + 1
        cols == IF images.w < size THEN 0 ELSE (images.w - size) \div size + 1
        depth == size * size * images.c
    IN  [rows |-> rows, cols |-> cols, depth |-> depth,
         at |-> [g \in (0..(rows - 1)) \X (0..(cols - 1)) |->
                   [f \in 1..depth |->
                       images.px[<<g[1] * size + (((f - 1) \div images.c) \div size),
                                   g[2] * size + (((f - 1) \div images.c) % size),
                                   (f - 1) % images.c>>]]]]

\* layers.Reshape((num_patches, -1)): the elements in row-major order, cut
\* into num_patches rows of equal length
flatten_patches(patches, num_patches) ==
    LET total == patches.rows * patches.cols * patches.depth
        width == total \div num_patches
        elem(e) == patches.at[<<(e \div patches.depth) \div patches.cols,
                                (e \div patches.depth) % patches.cols>>][(e % patches.depth) + 1]
    IN  [n \in 1..num_patches |-> [f \in 1..width |-> elem((n - 1) * width + (f - 1))]]

\* a learned Dense kernel entry (any value is a possible weight)
kernel(f, u) == ((f + 2 * u) % 3) - 1

\* layers.Dense(units): x . kernel, the kernel built for the width of the input
Dense(x, units) ==
    [u \in 1..units |-> SumSeq([f \in 1..Len(x) |-> x[f] * kernel(f, u)])]

RECURSIVE ISqrtIn(_, _, _)
ISqrtIn(n, lo, hi) ==
    IF lo >= hi THEN lo
    ELSE LET mid == (lo + hi + 1) \div 2
         IN  IF mid * mid <= n THEN ISqrtIn(n, mid, hi) ELSE ISqrtIn(n, lo, mid - 1)
\* floor(sqrt(n)), n < 2^30
ISqrt(n) == ISqrtIn(n, 0, 32767)

ActScale == 1000
layer_norm_eps == 1   \* 1e-6 * ActScale^2

\* layers.LayerNormalization(epsilon) over the last axis, gamma = 1, beta = 0
LayerNormalization(x, epsilon) ==
    LET d == Len(x)
        mean == SumSeq(x) \div d
        var == SumSeq([k \in 1..d |-> (x[k] - mean) * (x[k] - mean)]) \div d
        std == ISqrt(var + epsilon)
    IN  [k \in 1..d |-> ((x[k] - mean) * ActScale) \div std]

(* ----------------------- shifted-patch tokenizer ----------------------- *)

\* line 41: num_patches = (image_size // patch_size) ** 2
NumPatches(image_size, patch_size) ==
    (image_size \div patch_size) * (image_size \div patch_size)

\* lines 72-86: shiftedpatch.__init__; the half patch is stored as haff_patch
shiftedpatch_init(image_size, patch_size, num_patches, units, vanilla) ==
    [vanilla |-> vanilla,
     image_size |-> image_size,
     patch_size |-> patch_size,
     haff_patch |-> patch_size \div 2,
     flatten_patches |-> num_patches,
     projection |-> units,
     layer_norm |-> layer_norm_eps]

Raised(error) == [raised |-> TRUE, error |-> error, value |-> Null]
Returned(v) == [raised |-> FALSE, error |-> "", value |-> v]

\* lines 89-108: the offsets of a mode, read from self.half_patch
shift_offsets(self, mode) ==
    LET half == self["half_patch"]
    IN  CASE mode = "left-up"   -> [crop_height |-> half, crop_width |-> half,
                                    shift_height |-> 0, shift_width |-> 0]
          [] mode = "left-down" -> [crop_height |-> 0, crop_width |-> half,
                                    shift_height |-> half, shift_width |-> 0]
          [] mode = "right-up"  -> [crop_height |-> half, crop_width |-> 0,
                                    shift_height |-> 0, shift_width |-> half]
          [] OTHER              -> [crop_height |-> 0, crop_width |-> 0,
                                    shift_height |-> half, shift_width |-> half]

\* lines 88-122: shiftedpatch.crop_shift_pad; every mode reads self.half_patch,
\* an attribute __init__ never assigns
crop_shift_pad(self, images, mode) ==
    IF ~HasAttr(self, "half_patch")
    THEN Raised("AttributeError")
    ELSE LET o == shift_offsets(self, mode)
             crop == crop_to_bounding_box(images, o.crop_height, o.crop_width,
                                          self.image_size - self["half_patch"],
                                          self.image_size - self["half_patch"])
         IN  Returned(pad_to_bounding_box(crop, o.shift_height, o.shift_width,
                                          self.image_size, self.image_size))

Modes == <<"left-up", "left-down", "right-up", "right-down">>

\* lines 125-131: the image and its four shifted copies along the channel axis
shifted_concat(self, images) ==
    LET copies == [m \in 1..4 |-> crop_shift_pad(self, images, Modes[m])]
    IN  IF \E m \in 1..4 : copies[m].raised
        THEN Raised("AttributeError")
        ELSE Returned(concat(<<images>> \o [m \in 1..4 |-> copies[m].value]))

\* lines 132-143: patches, flat patches and tokens of the (concatenated) image
tokenize(self, images) ==
    LET patches == extract_patches(images, self.patch_size)
        flat_patches == flatten_patches(patches, self.flatten_patches)
        tokenz == IF ~self.vanilla
                  THEN [n \in DOMAIN flat_patches |->
                          Dense(LayerNormalization(flat_patches[n], self.layer_norm),
                                self.projection)]
                  ELSE [n \in DOMAIN flat_patches |->
                          Dense(flat_patches[n], self.projection)]
    IN  [status |-> "returned", images |-> images, patches |-> patches,
         flat_patches |-> flat_patches, tokenz |-> tokenz]

\* lines 124-143: shiftedpatch.call, as the record of how the call ended and
\* of its locals when it ended
shiftedpatch_call(self, images) ==
    IF ~self.vanilla
    THEN LET all == shifted_concat(self, images)
         IN  IF all.raised
             THEN [status |-> all.error, images |-> images, patches |-> Null,
                   flat_patches |-> <<>>, tokenz |-> <<>>]
             ELSE tokenize(self, all.value)
    ELSE tokenize(self, images)

(* ---------------------------- patch encoder ---------------------------- *)
\* line 154: a learned Embedding row (any value is a possible weight)
position_embedding(position, units) == [u \in 1..units |-> ((position + u) % 2) * ActScale]

\* lines 157-160: patch_encoder.call adds the embedding of position n - 1 to token n
patch_encoder_call(num_patches, units, encoded_patches) ==
    [n \in 1..num_patches |->
        [u \in 1..units |-> encoded_patches[n][u] + position_embedding(n - 1, units)[u]]]

(* -------------------------- locality attention ------------------------- *)
ScoreScale == 2      \* a score s is s * ScoreScale
ExpScale == 10000

\* lines 181-182: 1 - tf.eye(num_patches), cast to int8
eye(n) == [i \in 1..n |-> [j \in 1..n |-> IF i = j THEN 1 ELSE 0]]
\* the mask without the "1 -": the identity matrix itself
build_diag_attn_mask_identity(n) == eye(n)

build_diag_attn_mask(n) == [i \in 1..n |-> [j \in 1..n |-> 1 - eye(n)[i][j]]]

\* lines 163-165: the temperature is sqrt(key_dim); key_dim ranges over
\* perfect squares (KeyDims), whose root is exact
multiheadattention_init(num_heads, key_dim, dropout) ==
    [num_heads |-> num_heads, key_dim |-> key_dim, dropout |-> dropout,
     trainable |-> ISqrt(key_dim)]

RECURSIVE ExpNeg(_)
\* exp(-d / ScoreScale) * ExpScale for d >= 0; float32 underflows to 0 below exp(-104)
ExpNeg(d) ==
    IF d > 104 * ScoreScale THEN 0
    ELSE IF d = 0 THEN ExpScale
    ELSE (ExpNeg(d - 1) * 6065) \div 10000

Max(S) == CHOOSE x \in S : \A y \in S : y <= x

\* line 170: MultiHeadAttention._masked_softmax: -1e9 is added where the mask
\* is 0, then softmax over the key axis; a probability is w[i][j] / z[i]
masked_softmax(attention_scores, attention_mask) ==
    LET n == Len(attention_scores)
        masked == [i \in 1..n |-> [j \in 1..n |->
                     IF attention_mask = Null THEN attention_scores[i][j]
                     ELSE attention_scores[i][j]
                          - (1 - attention_mask[i][j]) * 1000000000 * ScoreScale]]
        top == [i \in 1..n |-> Max({masked[i][j] : j \in 1..n})]
        w == [i \in 1..n |-> [j \in 1..n |-> ExpNeg(top[i] - masked[i][j])]]
    IN  [w |-> w, z |-> [i \in 1..n |-> SumSeq(w[i])]]

\* lines 167-174: multiheadattention._compute_attention for one head; dropped is
\* the set of <<query, key>> entries the dropout layer zeroes (none unless training)
compute_attention(self, query, key, value, attention_mask, dropped) ==
    LET n == Len(query)
        q == [i \in 1..n |-> [d \in 1..self.key_dim |->
                 (query[i][d] * ScoreScale) \div self.trainable]]
        scores == [i \in 1..n |-> [j \in 1..n |->
                     SumSeq([d \in 1..self.key_dim |-> key[j][d] * q[i][d]])]]
        attention_scores == masked_softmax(scores, attention_mask)
        keep(i, j) == IF <<i, j>> \in dropped THEN 0 ELSE 1
        rescale == IF dropped = {} THEN 1000 ELSE 1000 - self.dropout
        combine(i, d) ==
            (SumSeq([j \in 1..n |-> keep(i, j) * attention_scores.w[i][j] * value[j][d]])
                * ActScale) \div attention_scores.z[i]
        attention_output ==
            [i \in 1..n |-> [d \in 1..self.key_dim |-> (combine(i, d) * 1000) \div rescale]]
    IN  [status |-> "returned", attention_mask |-> attention_mask,
         attention_scores |-> attention_scores, attention_output |-> attention_output]

(* ------------------------ vit_classifier encoder ----------------------- *)
\* layers.Add() of two token sequences
Add(a, b) == [n \in DOMAIN a |-> [u \in DOMAIN a[n] |-> a[n][u] + b[n][u]]]

\* layers.LayerNormalization(epsilon = 1e-6) of every token
Normalize(x) == [n \in DOMAIN x |-> LayerNormalization(x[n], layer_norm_eps)]

\* lines 191-200: one pass of the loop body; attention_output is what the
\* attention layer of line 194 or 196 returned and mlp_out what mlp returned.
\* Line 199 subtracts mlp_out from x3 and drops the difference.
encoder_block(vanilla, encoded_patches, attention_output, mlp_out, mask) ==
    LET x1 == Normalize(encoded_patches)
        x2 == Add(attention_output, encoded_patches)
        x3 == Normalize(x2)
    IN  [input |-> encoded_patches, x1 |-> x1,
         attention_mask |-> IF ~vanilla THEN mask ELSE Null,
         attention_output |-> attention_output, x2 |-> x2, x3 |-> x3,
         mlp_out |-> mlp_out, encoded_patches |-> Add(x3, x2)]

\* the augmented input image: every pixel distinct and nonzero
InputImage(size, channels, seed) ==
    Image(size, size, channels,
          [p \in Pixels(size, size, channels) |-> seed + (p[1] * size + p[2]) * channels + p[3]])

input_channels == 3

\* lines 185-188: tokens of the augmented image, position-encoded
vit_tokens(h, vanilla, seed) ==
    LET layer == shiftedpatch_init(h.image_size, h.patch_size, h.num_patches,
                                   projection_dim, vanilla)
        out == shiftedpatch_call(layer, InputImage(h.image_size, input_channels, seed))
    IN  IF out.status # "returned"
        THEN Raised(out.status)
        ELSE Returned(patch_encoder_call(h.num_patches, projection_dim, out.tokenz))

(* ------------------------------ inputs --------------------------------- *)
Rates == {k * RateUnit : k \in 0..MaxRate}
Steps == 0..MaxSteps
Seeds == 1..2
KeyDims == {1, 4}

\* what a layer with learned weights may return for num_patches tokens
LayerOutputs(n, width) ==
    { [i \in 1..n |-> [u \in 1..width |-> 0]],
      [i \in 1..n |-> [u \in 1..width |-> ActScale]],
      [i \in 1..n |-> [u \in 1..width |-> (i + u) * 100]] }

\* projected queries, keys and values of n positions
Projected(n, width, a, b) ==
    [i \in 1..n |-> [d \in 1..width |-> ((a * i + d + b) % 3) - 1]]

\* the hyper parameters of lines 39-41, scaled down
HyperParameters ==
    { [image_size |-> g * p, patch_size |-> p, num_patches |-> NumPatches(g * p, p)] :
        g \in 2..MaxGrid, p \in 1..2 }

NoCall == [status |-> "none"]

(* ------------------------------ actions -------------------------------- *)
ScheduleConstruct ==
    /\ unit = "schedule"
    /\ sched = Null
    /\ \E b \in Rates, w \in Rates, t \in Steps, ws \in Steps :
          sched' = warmupcosine_init(b, t, w, ws)
    /\ UNCHANGED <<unit, sched_call, patcher, patch_call, hyper, diag_attn_mask,
                   attn, attn_call, vit>>

ScheduleCall ==
    /\ unit = "schedule"
    /\ sched # Null
    /\ \E step \in 0..(MaxSteps + 1) :
          sched_call' = warmupcosine_call(sched, step)
    /\ UNCHANGED <<unit, sched, patcher, patch_call, hyper, diag_attn_mask,
                   attn, attn_call, vit>>

PatchConstruct ==
    /\ unit = "tokenizer"
    /\ patcher = Null
    /\ \E image_size \in 1..MaxImage, vanilla \in BOOLEAN :
       \E patch_size \in 1..image_size :
          patcher' = shiftedpatch_init(image_size, patch_size,
                                       NumPatches(image_size, patch_size),
                                       projection_dim, vanilla)
    /\ UNCHANGED <<unit, sched, sched_call, patch_call, hyper, diag_attn_mask,
                   attn, attn_call, vit>>

PatchCall ==
    /\ unit = "tokenizer"
    /\ patcher # Null
    /\ \E seed \in Seeds :
          patch_call' = [seed |-> seed] @@ shiftedpatch_call(
                            patcher, InputImage(patcher.image_size, input_channels, seed))
    /\ UNCHANGED <<unit, sched, sched_call, patcher, hyper, diag_attn_mask,
                   attn, attn_call, vit>>

AttentionConstruct ==
    /\ unit = "attention"
    /\ attn = Null
    /\ \E key_dim \in KeyDims : attn' = multiheadattention_init(1, key_dim, 100)
    /\ UNCHANGED <<unit, sched, sched_call, patcher, patch_call, hyper,
                   diag_attn_mask, attn_call, vit>>

\* line 194: the layer is called with attention_mask = diag_attn_mask
AttentionCall ==
    /\ unit = "attention"
    /\ attn # Null
    /\ \E a \in 0..2, b \in 0..2, training \in BOOLEAN :
       \E dropped \in IF training THEN {{}, {<<1, 2>>}, {<<2, 1>>, <<2, 2>>}} ELSE {{}} :
          attn_call' = compute_attention(
                           attn,
                           Projected(hyper.num_patches, attn.key_dim, a, 0),
                           Projected(hyper.num_patches, attn.key_dim, b, 1),
                           Projected(hyper.num_patches, attn.key_dim, b, 2),
                           diag_attn_mask, dropped)
    /\ UNCHANGED <<unit, sched, sched_call, patcher, patch_call, hyper,
                   diag_attn_mask, attn, vit>>

\* lines 184-188: vit_classifier up to the loop
VitStart ==
    /\ unit = "classifier"
    /\ vit.pc = "start"
    /\ \E vanilla \in BOOLEAN, seed \in Seeds :
          LET tokens == vit_tokens(hyper, vanilla, seed)
          IN  vit' = IF tokens.raised
                     THEN [vit EXCEPT !.pc = tokens.error, !.vanilla = vanilla]
                     ELSE [vit EXCEPT !.pc = "loop", !.vanilla = vanilla,
                                      !.encoded_patches = tokens.value]
    /\ UNCHANGED <<unit, sched, sched_call, patcher, patch_call, hyper,
                   diag_attn_mask, attn, attn_call>>

\* lines 190-200: one pass of the loop
VitBlock ==
    /\ unit = "classifier"
    /\ vit.pc = "loop"
    /\ vit.layer < transformer_layers
    /\ \E attention_output \in LayerOutputs(hyper.num_patches, projection_dim),
          mlp_out \in LayerOutputs(hyper.num_patches, projection_dim) :
          LET b == encoder_block(vit.vanilla, vit.encoded_patches,
                                 attention_output, mlp_out, diag_attn_mask)
          IN  vit' = [vit EXCEPT !.layer = vit.layer + 1,
                                 !.block = b,
                                 !.encoded_patches = b.encoded_patches]
    /\ UNCHANGED <<unit, sched, sched_call, patcher, patch_call, hyper,
                   diag_attn_mask, attn, attn_call>>

Init ==
    /\ unit \in {"schedule", "tokenizer", "attention", "classifier"}
    /\ sched = Null
    /\ sched_call = NoCall
    /\ patcher = Null
    /\ patch_call = NoCall
    /\ hyper \in HyperParameters
    /\ diag_attn_mask = build_diag_attn_mask(hyper.num_patches)
    /\ attn = Null
    /\ attn_call = NoCall
    /\ vit = [pc |-> "start", vanilla |-> FALSE, layer |-> 0,
              encoded_patches |-> <<>>, block |-> Null]

Next ==
    \/ ScheduleConstruct
    \/ ScheduleCall
    \/ PatchConstruct
    \/ PatchCall
    \/ AttentionConstruct
    \/ AttentionCall
    \/ VitStart
    \/ VitBlock

Spec == Init /\ [][Next]_vars

(* ============================== claims ================================= *)
Constructed == unit = "schedule" /\ sched # Null
Called == Constructed /\ sched_call.status # "none"

\* the configurations the specification calls valid
ValidConfig(self) ==
    /\ self.total_steps >= self.warmup_steps
    /\ self.warmup_steps > 0 => self.learning_rate_base >= self.warmup_learning_rate

C3_RateZeroAfterTotalSteps ==
    (Called /\ ValidConfig(sched)) =>
        /\ sched_call.status = "returned"
        /\ sched_call.step > sched.total_steps => sched_call.value = Num(0)

\* C4: for a valid schedule with warmup_steps > 0 the rate on a step below
\* warmup_steps is warmup_start_rate + step * (base_rate - warmup_start_rate)
\* / warmup_steps (so rate(0) is warmup_start_rate); with warmup_steps = 0 the
\* cosine formula applies from step 0.
C4_LinearWarmup ==
    (/\ Called
     /\ ValidConfig(sched)
     /\ \/ sched_call.step < sched.warmup_steps
        \/ sched.warmup_steps = 0 /\ sched_call.step < sched.total_steps) =>
        /\ sched_call.status = "returned"
        /\ sched_call.step < sched.warmup_steps =>
              sched_call.value =
                  Num(sched.warmup_learning_rate
                      + (sched_call.step
                            * (sched.learning_rate_base - sched.warmup_learning_rate))
                        \div sched.warmup_steps)
        /\ sched.warmup_steps = 0 =>
              sched_call.value =
                  Num((sched.learning_rate_base
                          * (CosScale + CosPi(sched_call.step, sched.total_steps)))
                      \div (2 * CosScale))

\* C5: for a valid schedule the rate on a step in [warmup_steps, total_steps]
\* is the cosine decay: base_rate at warmup_steps, 0 at total_steps, and never
\* above base_rate in between.
C5_CosineDecay ==
    (/\ Called
     /\ ValidConfig(sched)
     /\ sched_call.step >= sched.warmup_steps
     /\ sched_call.step <= sched.total_steps) =>
        /\ sched_call.status = "returned"
        /\ sched_call.value.kind = "num"
        /\ sched_call.value.val <= sched.learning_rate_base
        /\ sched_call.step = sched.total_steps => sched_call.value = Num(0)
        /\ (sched_call.step = sched.warmup_steps /\ sched.warmup_steps < sched.total_steps)
              => sched_call.value = Num(sched.learning_rate_base)

\* C10: for every configuration that passes validation, total_steps =
\* warmup_steps included, the cosine term of a call never divides by zero (the
\* rate is a number, never NaN), and a returned rate lies in [0, base_rate].
C10_RateWellDefined ==
    (Called /\ ValidConfig(sched)) =>
        /\ sched_call.learning_rate.kind = "num"
        /\ sched_call.status = "returned" =>
              /\ sched_call.value.val >= 0
              /\ sched_call.value.val <= sched.learning_rate_base

\* C2: every encoder block returns ff_out + residual1, where residual1 =
\* attn_out + enc; hence with attn_out = ff_out = 0 the block returns enc.
C2_BlockAddsFeedForward ==
    (unit = "classifier" /\ vit.block # Null) =>
        /\ vit.block.encoded_patches =
              Add(vit.block.mlp_out, Add(vit.block.attention_output, vit.block.input))
        /\ vit.encoded_patches = vit.block.encoded_patches

Tokenized == unit = "tokenizer" /\ patcher # Null /\ patch_call.status # "none"

\* the pixel the claim gives the shifted copy at (r, c), channel k
ShiftedPixel(images, size, half, crop_top, crop_left, pad_top, pad_left, r, c, k) ==
    IF r - pad_top \in 0..(size - half - 1) /\ c - pad_left \in 0..(size - half - 1)
    THEN images.px[<<r - pad_top + crop_top, c - pad_left + crop_left, k>>]
    ELSE 0

\* the table of the claim: crop top, crop left, pad top, pad left
ShiftTable(half) ==
    << <<half, half, 0, 0>>, <<0, half, half, 0>>,
       <<half, 0, 0, half>>, <<0, 0, half, half>> >>

\* C6: in non-vanilla mode the tokenizer concatenates the image and its four
\* shifted copies along the channel axis; each copy has the size of the image
\* and holds the pixels the table of offsets gives, zero elsewhere.
C6_ShiftedCopies ==
    (Tokenized /\ ~patcher.vanilla) =>
        LET size == patcher.image_size
            half == patcher.patch_size \div 2
            input == InputImage(size, input_channels, patch_call.seed)
            out == patch_call.images
        IN  /\ patch_call.status = "returned"
            /\ out.h = size /\ out.w = size /\ out.c = 5 * input_channels
            /\ \A p \in Pixels(size, size, input_channels) :
                  /\ out.px[p] = input.px[p]
                  /\ \A m \in 1..4 :
                        out.px[<<p[1], p[2], m * input_channels + p[3]>>] =
                            ShiftedPixel(input, size, half,
                                         ShiftTable(half)[m][1], ShiftTable(half)[m][2],
                                         ShiftTable(half)[m][3], ShiftTable(half)[m][4],
                                         p[1], p[2], p[3])

\* C7: when image_size is a multiple of patch_size the tokenizer returns, in
\* vanilla and in non-vanilla mode, (image_size / patch_size)^2 tokens, token n
\* made of the patch_size x patch_size patch at row-major position n.
C7_TokenCount ==
    (Tokenized /\ patcher.image_size % patcher.patch_size = 0) =>
        LET g == patcher.image_size \div patcher.patch_size
            size == patcher.patch_size
        IN  /\ patch_call.status = "returned"
            /\ Len(patch_call.tokenz) = g * g
            /\ Len(patch_call.flat_patches) = g * g
            /\ \A n \in 1..(g * g) :
                  /\ Len(patch_call.tokenz[n]) = projection_dim
                  /\ \A dr \in 0..(size - 1), dc \in 0..(size - 1),
                        k \in 0..(patch_call.images.c - 1) :
                        patch_call.flat_patches[n]
                            [(dr * size + dc) * patch_call.images.c + k + 1] =
                          patch_call.images.px[<<((n - 1) \div g) * size + dr,
                                                 ((n - 1) % g) * size + dc, k>>]

\* C9: the feature count of a patch fed to the projection is patch_size^2 * C
\* in vanilla mode and patch_size^2 * 5C in non-vanilla mode.
C9_FeatureCount ==
    Tokenized =>
        /\ patch_call.status = "returned"
        /\ \A n \in DOMAIN patch_call.flat_patches :
              Len(patch_call.flat_patches[n]) =
                  patcher.patch_size * patcher.patch_size * input_channels
                      * (IF patcher.vanilla THEN 1 ELSE 5)

\* the sum of the entries of a row other than entry i
SumOthers(row, i) == SumSeq([j \in 1..Len(row) |-> IF j = i THEN 0 ELSE row[j]])

\* C8: the mask is num_patches x num_patches, 0 on the diagonal and 1
\* elsewhere; the attention layer is called with that mask; after the masked
\* softmax every query position has probability 0 on its own position and
\* the probabilities of the other positions sum to 1.
C8_DiagonalMask ==
    /\ Len(diag_attn_mask) = hyper.num_patches
    /\ \A i \in 1..hyper.num_patches :
          /\ Len(diag_attn_mask[i]) = hyper.num_patches
          /\ \A j \in 1..hyper.num_patches :
                diag_attn_mask[i][j] = 0 <=> i = j
          /\ \A j \in 1..hyper.num_patches : diag_attn_mask[i][j] \in {0, 1}
    /\ (unit = "attention" /\ attn_call.status = "returned") =>
          /\ attn_call.attention_mask = diag_attn_mask
          /\ \A i \in 1..hyper.num_patches :
                /\ attn_call.attention_scores.w[i][i] = 0
                /\ attn_call.attention_scores.z[i] > 0
                /\ SumOthers(attn_call.attention_scores.w[i], i)
                      = attn_call.attention_scores.z[i]

C8_Witness ==
    /\ unit = "attention"
    /\ attn_call.status = "returned"
    /\ attn_call.attention_mask = diag_attn_mask
    /\ \E i \in 1..hyper.num_patches :
       \E j \in 1..hyper.num_patches, k \in 1..hyper.num_patches :
          /\ j # i /\ k # i /\ j # k
          /\ attn_call.attention_scores.w[i][j] > attn_call.attention_scores.w[i][k]
          /\ attn_call.attention_scores.w[i][k] > 0
====
